---- MODULE Spec2Model ----
(***************************************************************************)
(* Channel selection (ChannelManagementStrategy.selectChannel) and the    *)
(* MPEContract gateway operations it drives, over a model of the escrow   *)
(* ledger.  Amounts are cogs (integers); expirations are block numbers.   *)
(* Every await of the source is a step of its own, so that two            *)
(* invocations started by the caller may interleave at exactly the        *)
(* points the event loop allows.                                          *)
(***************************************************************************)
EXTENDS Integers, Sequences, FiniteSets, TLC

\* ------------------------------------------------------------------ bounds
MaxChannels == 2      \* channels known for the (sender, recipient, groupId) key
MaxValue == 1         \* initial value of a channel
MaxExpiration == 2    \* initial expiration of a channel, required expiration
MaxPrice == 2         \* price_in_cogs of the service
MaxEscrow == 2        \* initial escrow (MPE) balance of the account
MaxBase == 1          \* initial base token balance of the account
MaxAllowance == 1     \* initial token allowance granted to the escrow contract

\* The invocations of selectChannel the caller has issued for one key.
Procs == {"a", "b"}

VARIABLES
  paymentChannels,     \* serviceClient.paymentChannels: the local PaymentChannel objects
  chain,               \* ledger: channelId -> [value, expiration]
  escrow,              \* ledger: escrow balance of the account (balances(address))
  base,                \* token balance of the account outside the escrow
  allowance,           \* token allowance of the escrow contract over the account
  serviceCallPrice,    \* serviceClient.metadata.pricing.price_in_cogs
  defaultExpiration,   \* serviceClient.defaultChannelExpiration()
  pc,                  \* position of each invocation
  mpeBalance,          \* selectChannel's local mpeBalance
  currentEscrowBalance,\* _fundEscrowAccount's local currentEscrowBalance
  branch,              \* which branch of selectChannel the invocation took
  sel,                 \* channelId the invocation operates on (0: none)
  txs,                 \* transactions the invocation has submitted, in order
  result,              \* channelId returned (0: nothing returned)
  err                  \* error the invocation rejected with ("" : none)

ledgerVars == <<chain, escrow, base, allowance>>
inputVars == <<serviceCallPrice, defaultExpiration>>
procVars == <<pc, mpeBalance, currentEscrowBalance, branch, sel, txs, result, err>>
vars == <<paymentChannels, chain, escrow, base, allowance, serviceCallPrice,
          defaultExpiration, pc, mpeBalance, currentEscrowBalance, branch, sel,
          txs, result, err>>

\* ------------------------------------------------------- PaymentChannel
\* PaymentChannel.hasSufficientFunds(price)
hasSufficientFunds(ch, price) == ch.value - ch.amountSpent >= price

\* PaymentChannel.isValid(requiredExpiration)
isValid(ch, requiredExpiration) == ch.expiration >= requiredExpiration

\* lodash find over indices: the least index whose element satisfies P, 0 if none
FirstIndex(chs, P(_)) ==
  IF \E i \in 1..Len(chs) : P(chs[i])
    THEN CHOOSE i \in 1..Len(chs) : P(chs[i]) /\ \A j \in 1..(i - 1) : ~P(chs[j])
    ELSE 0

LastIndex(chs, P(_)) ==
  IF \E i \in 1..Len(chs) : P(chs[i])
    THEN CHOOSE i \in 1..Len(chs) : P(chs[i]) /\ \A j \in (i + 1)..Len(chs) : ~P(chs[j])
    ELSE 0

\* ------------------------------------------- selectChannel's conditions
\* line 19 with the validity test dropped
firstFundedValidChannel_fundedOnly(chs, price, exp) ==
  LET P(ch) == hasSufficientFunds(ch, price) IN FirstIndex(chs, P)

\* line 19 scanning from the end of the list
firstFundedValidChannel_last(chs, price, exp) ==
  LET P(ch) == hasSufficientFunds(ch, price) /\ isValid(ch, exp) IN LastIndex(chs, P)

\* line 19
firstFundedValidChannel(chs, price, exp) ==
  LET P(ch) == hasSufficientFunds(ch, price) /\ isValid(ch, exp) IN FirstIndex(chs, P)

\* line 24 scanning from the end of the list
firstFundedChannel_last(chs, price) ==
  LET P(ch) == hasSufficientFunds(ch, price) IN LastIndex(chs, P)

\* line 24
firstFundedChannel(chs, price) ==
  LET P(ch) == hasSufficientFunds(ch, price) IN FirstIndex(chs, P)

\* (variant: line 30 finding no channel)
firstValidChannel_none(chs, exp) == 0

\* line 30
firstValidChannel(chs, exp) ==
  LET P(ch) == isValid(ch, exp) IN FirstIndex(chs, P)

\* PaymentChannel.extendExpiration submits only a strict extension
extensionNeeded(ch, newExpiration) == newExpiration > ch.expiration

\* line 12: the escrow balance lets the channel be opened without a deposit
canOpenDirectly(balance, price) == balance > price

\* ------------------------------------------------- _fundEscrowAccount
\* line 229 with the comparison dropped
needsDeposit_always(amountInCogs, balance) == TRUE

\* line 229
needsDeposit(amountInCogs, balance) == amountInCogs > balance

\* line 230 depositing the whole amount
depositAmount_whole(amountInCogs, balance) == amountInCogs

\* line 230 depositing one cog too few
depositAmount_short(amountInCogs, balance) == amountInCogs - balance - 1

\* line 230
depositAmount(amountInCogs, balance) == amountInCogs - balance

\* --------------------------------------------------------------- ledger
\* Transaction records kept in txs.
Tx(op, ch, amount, expiry, ok) ==
  [op |-> op, ch |-> ch, amount |-> amount, expiry |-> expiry, ok |-> ok]

ChannelOps == {"openChannel", "depositAndOpenChannel", "channelAddFunds",
               "channelExtend", "channelExtendAndAddFunds"}
FundingOps == {"channelAddFunds", "channelExtendAndAddFunds"}

\* ------------------------------------------------------------------ Init
ChannelStates ==
  { [value |-> v, amountSpent |-> s, expiration |-> e] :
      v \in 0..MaxValue, s \in 0..MaxValue, e \in 0..MaxExpiration }

RECURSIVE ChannelLists(_)
ChannelLists(n) ==
  IF n = 0 THEN { <<>> }
  ELSE LET shorter == ChannelLists(n - 1) IN
       shorter \cup { Append(l, c) : l \in { x \in shorter : Len(x) = n - 1 },
                                      c \in { x \in ChannelStates : x.amountSpent <= x.value } }

WithIds(l) ==
  [ i \in 1..Len(l) |-> [channelId |-> i, value |-> l[i].value,
                         amountSpent |-> l[i].amountSpent,
                         expiration |-> l[i].expiration] ]

OnChain(l) == [ i \in 1..Len(l) |-> [value |-> l[i].value, expiration |-> l[i].expiration] ]

Init ==
  /\ \E l \in ChannelLists(MaxChannels) :
       /\ paymentChannels = WithIds(l)
       /\ chain = OnChain(l)
  /\ escrow \in 0..MaxEscrow
  /\ base \in 0..MaxBase
  /\ allowance \in 0..MaxAllowance
  /\ serviceCallPrice \in 1..MaxPrice
  /\ defaultExpiration \in 1..MaxExpiration
  /\ pc = [p \in Procs |-> "idle"]
  /\ mpeBalance = [p \in Procs |-> 0]
  /\ currentEscrowBalance = [p \in Procs |-> 0]
  /\ branch = [p \in Procs |-> "none"]
  /\ sel = [p \in Procs |-> 0]
  /\ txs = [p \in Procs |-> <<>>]
  /\ result = [p \in Procs |-> 0]
  /\ err = [p \in Procs |-> ""]


\* ------------------------------------------------------- ledger effects
\* ERC20 approve: the allowance becomes the approved amount
LedgerApprove(amount) ==
  /\ allowance' = amount
  /\ UNCHANGED <<chain, escrow, base>>

\* deposit(amount): tokens move from the base balance into the escrow
LedgerDepositAccepts(amount) == base >= amount /\ allowance >= amount
LedgerDeposit(amount) ==
  /\ escrow' = escrow + amount
  /\ base' = base - amount
  /\ allowance' = allowance - amount
  /\ UNCHANGED chain

\* openChannel(sender, recipient, groupId, amount, expiration)
LedgerOpenChannelAccepts(amount) == escrow >= amount
LedgerOpenChannel(amount, expiry) ==
  /\ chain' = Append(chain, [value |-> amount, expiration |-> expiry])
  /\ escrow' = escrow - amount
  /\ UNCHANGED <<base, allowance>>

\* channelAddFunds(channelId, amount)
LedgerChannelAddFundsAccepts(amount) == escrow >= amount
LedgerChannelAddFunds(id, amount) ==
  /\ chain' = [chain EXCEPT ![id].value = @ + amount]
  /\ escrow' = escrow - amount
  /\ UNCHANGED <<base, allowance>>

\* channelExtend(channelId, newExpiration)
LedgerChannelExtendAccepts(id, expiry) == expiry >= chain[id].expiration
LedgerChannelExtend(id, expiry) ==
  /\ chain' = [chain EXCEPT ![id].expiration = expiry]
  /\ UNCHANGED <<escrow, base, allowance>>

\* channelExtendAndAddFunds(channelId, newExpiration, amount)
LedgerChannelExtendAndAddFunds(id, expiry, amount) ==
  /\ chain' = [chain EXCEPT ![id].expiration = expiry, ![id].value = @ + amount]
  /\ escrow' = escrow - amount
  /\ UNCHANGED <<base, allowance>>

\* ----------------------------------------------------- bookkeeping
Submit(p, tx) == txs' = [txs EXCEPT ![p] = Append(@, tx)]
Goto(p, label) == pc' = [pc EXCEPT ![p] = label]
Return(p, id) == /\ pc' = [pc EXCEPT ![p] = "done"]
                 /\ result' = [result EXCEPT ![p] = id]
Throw(p, e) == /\ pc' = [pc EXCEPT ![p] = "error"]
               /\ err' = [err EXCEPT ![p] = e]

InFlight(p) == pc[p] \notin {"idle", "done", "error"}

\* The local PaymentChannel object with the given channelId.
Local(id) == paymentChannels[CHOOSE i \in 1..Len(paymentChannels) :
                               paymentChannels[i].channelId = id]

\* ----------------------------------------------------- selectChannel
\* The caller invokes selectChannel (line 4); nothing in it waits for an
\* earlier invocation.
selectChannel(p) ==
  /\ pc[p] = "idle"
  /\ Goto(p, "l8")
  /\ UNCHANGED <<paymentChannels, ledgerVars, inputVars, mpeBalance,
                 currentEscrowBalance, branch, sel, txs, result, err>>

\* The same call made by a caller that awaits each selection before the next.
selectChannelSerial(p) ==
  /\ \A q \in Procs : ~InFlight(q)
  /\ selectChannel(p)

\* line 8: const mpeBalance = await account.escrowBalance()
escrowBalance(p) ==
  /\ pc[p] = "l8"
  /\ mpeBalance' = [mpeBalance EXCEPT ![p] = escrow]
  /\ Goto(p, "l9")
  /\ UNCHANGED <<paymentChannels, ledgerVars, inputVars, currentEscrowBalance,
                 branch, sel, txs, result, err>>

\* lines 9-13: no channel, the balance covers the price: open directly
openChannelBranch(p) ==
  /\ pc[p] = "l9"
  /\ Len(paymentChannels) = 0
  /\ canOpenDirectly(mpeBalance[p], serviceCallPrice)
  /\ branch' = [branch EXCEPT ![p] = "open"]
  /\ Goto(p, "openChannel")
  /\ UNCHANGED <<paymentChannels, ledgerVars, inputVars, mpeBalance,
                 currentEscrowBalance, sel, txs, result, err>>

\* lines 9-16: no channel, the balance does not cover the price.  Line 16
\* calls depositAndOpenChannel on serviceCallPrice, a number, which has no
\* such method: the call throws a TypeError before anything is submitted.
depositAndOpenChannelBranch(p) ==
  /\ pc[p] = "l9"
  /\ Len(paymentChannels) = 0
  /\ ~canOpenDirectly(mpeBalance[p], serviceCallPrice)
  /\ branch' = [branch EXCEPT ![p] = "depositAndOpen"]
  /\ Throw(p, "TypeError")
  /\ UNCHANGED <<paymentChannels, ledgerVars, inputVars, mpeBalance,
                 currentEscrowBalance, sel, txs, result>>

\* lines 19-22: reuse the first funded and valid channel
reuseBranch(p) ==
  LET i == firstFundedValidChannel(paymentChannels, serviceCallPrice, defaultExpiration) IN
  /\ pc[p] = "l9"
  /\ Len(paymentChannels) # 0
  /\ i # 0
  /\ branch' = [branch EXCEPT ![p] = "reuse"]
  /\ sel' = [sel EXCEPT ![p] = paymentChannels[i].channelId]
  /\ Return(p, paymentChannels[i].channelId)
  /\ UNCHANGED <<paymentChannels, ledgerVars, inputVars, mpeBalance,
                 currentEscrowBalance, txs, err>>

\* (variant: line 24 settling on any funded channel, not the first)
extendBranch_any(p) ==
  /\ pc[p] = "l9"
  /\ Len(paymentChannels) # 0
  /\ firstFundedValidChannel(paymentChannels, serviceCallPrice, defaultExpiration) = 0
  /\ \E i \in 1..Len(paymentChannels) :
       /\ hasSufficientFunds(paymentChannels[i], serviceCallPrice)
       /\ branch' = [branch EXCEPT ![p] = "extend"]
       /\ sel' = [sel EXCEPT ![p] = paymentChannels[i].channelId]
       /\ Goto(p, IF extensionNeeded(paymentChannels[i], defaultExpiration)
                    THEN "channelExtend" ELSE "refresh")
  /\ UNCHANGED <<paymentChannels, ledgerVars, inputVars, mpeBalance,
                 currentEscrowBalance, txs, result, err>>

\* lines 24-26: extend the first funded channel.  extendExpiration runs up
\* to its submission in the same turn of the event loop as the scan, so its
\* strict-extension check reads the list the scan read.
extendBranch(p) ==
  LET i == firstFundedChannel(paymentChannels, serviceCallPrice) IN
  /\ pc[p] = "l9"
  /\ Len(paymentChannels) # 0
  /\ firstFundedValidChannel(paymentChannels, serviceCallPrice, defaultExpiration) = 0
  /\ i # 0
  /\ branch' = [branch EXCEPT ![p] = "extend"]
  /\ sel' = [sel EXCEPT ![p] = paymentChannels[i].channelId]
  /\ Goto(p, IF extensionNeeded(paymentChannels[i], defaultExpiration)
               THEN "channelExtend" ELSE "refresh")
  /\ UNCHANGED <<paymentChannels, ledgerVars, inputVars, mpeBalance,
                 currentEscrowBalance, txs, result, err>>

\* lines 30-32: add funds to the first valid channel
addFundsBranch(p) ==
  LET i == firstValidChannel(paymentChannels, defaultExpiration) IN
  /\ pc[p] = "l9"
  /\ Len(paymentChannels) # 0
  /\ firstFundedValidChannel(paymentChannels, serviceCallPrice, defaultExpiration) = 0
  /\ firstFundedChannel(paymentChannels, serviceCallPrice) = 0
  /\ i # 0
  /\ branch' = [branch EXCEPT ![p] = "addFunds"]
  /\ sel' = [sel EXCEPT ![p] = paymentChannels[i].channelId]
  /\ Goto(p, "fund")
  /\ UNCHANGED <<paymentChannels, ledgerVars, inputVars, mpeBalance,
                 currentEscrowBalance, txs, result, err>>

\* (variant: lines 36-37 taking the last channel of the list)
extendAndAddFundsBranch_last(p) ==
  /\ pc[p] = "l9"
  /\ Len(paymentChannels) # 0
  /\ firstFundedValidChannel(paymentChannels, serviceCallPrice, defaultExpiration) = 0
  /\ firstFundedChannel(paymentChannels, serviceCallPrice) = 0
  /\ firstValidChannel(paymentChannels, defaultExpiration) = 0
  /\ branch' = [branch EXCEPT ![p] = "extendAndAddFunds"]
  /\ sel' = [sel EXCEPT ![p] = paymentChannels[Len(paymentChannels)].channelId]
  /\ Goto(p, "fund")
  /\ UNCHANGED <<paymentChannels, ledgerVars, inputVars, mpeBalance,
                 currentEscrowBalance, txs, result, err>>

\* lines 36-37: extend and fund the channel at index 0
extendAndAddFundsBranch(p) ==
  /\ pc[p] = "l9"
  /\ Len(paymentChannels) # 0
  /\ firstFundedValidChannel(paymentChannels, serviceCallPrice, defaultExpiration) = 0
  /\ firstFundedChannel(paymentChannels, serviceCallPrice) = 0
  /\ firstValidChannel(paymentChannels, defaultExpiration) = 0
  /\ branch' = [branch EXCEPT ![p] = "extendAndAddFunds"]
  /\ sel' = [sel EXCEPT ![p] = paymentChannels[1].channelId]
  /\ Goto(p, "fund")
  /\ UNCHANGED <<paymentChannels, ledgerVars, inputVars, mpeBalance,
                 currentEscrowBalance, txs, result, err>>

\* ------------------------------------------------- MPEContract steps
\* The amount selectChannel hands to addFunds / extendAndAddFunds
\* (lines 32 and 37) and so to _fundEscrowAccount: the call price.
amountInCogs == serviceCallPrice

\* The transaction an invocation is about to submit at its position.
PendingTx(p, ok) ==
  CASE pc[p] = "openChannel" ->
         Tx("openChannel", 0, serviceCallPrice, defaultExpiration, ok)
    [] pc[p] = "approve" ->
         Tx("approve", 0, depositAmount(amountInCogs, currentEscrowBalance[p]), 0, ok)
    [] pc[p] = "deposit" ->
         Tx("deposit", 0, depositAmount(amountInCogs, currentEscrowBalance[p]), 0, ok)
    [] pc[p] = "channelAddFunds" ->
         Tx("channelAddFunds", sel[p], amountInCogs, 0, ok)
    [] pc[p] = "channelExtend" ->
         Tx("channelExtend", sel[p], 0, defaultExpiration, ok)
    [] pc[p] = "channelExtendAndAddFunds" ->
         Tx("channelExtendAndAddFunds", sel[p], amountInCogs, defaultExpiration, ok)

\* MPEContract.openChannel, lines 82-94: the transaction is mined
openChannel(p) ==
  /\ pc[p] = "openChannel"
  /\ LedgerOpenChannelAccepts(serviceCallPrice)
  /\ LedgerOpenChannel(serviceCallPrice, defaultExpiration)
  /\ Submit(p, PendingTx(p, TRUE))
  /\ sel' = [sel EXCEPT ![p] = Len(chain) + 1]
  /\ Goto(p, "newChannel")
  /\ UNCHANGED <<paymentChannels, inputVars, mpeBalance, currentEscrowBalance,
                 branch, result, err>>

\* serviceClient.openChannel resolves to the channel of the open event
newlyOpenedChannel(p) ==
  /\ pc[p] = "newChannel"
  /\ Return(p, sel[p])
  /\ UNCHANGED <<paymentChannels, ledgerVars, inputVars, mpeBalance,
                 currentEscrowBalance, branch, sel, txs, err>>

\* _fundEscrowAccount, lines 226-229: read the balance, decide on a deposit
fundEscrowAccount(p) ==
  /\ pc[p] = "fund"
  /\ currentEscrowBalance' = [currentEscrowBalance EXCEPT ![p] = escrow]
  /\ IF needsDeposit(amountInCogs, escrow)
       THEN Goto(p, "depositToEscrowAccount")
       ELSE Goto(p, IF branch[p] = "addFunds" THEN "channelAddFunds"
                                             ELSE "channelExtendAndAddFunds")
  /\ UNCHANGED <<paymentChannels, ledgerVars, inputVars, mpeBalance, branch,
                 sel, txs, result, err>>

\* line 230, account.depositToEscrowAccount: read the allowance
depositToEscrowAccount(p) ==
  /\ pc[p] = "depositToEscrowAccount"
  /\ IF depositAmount(amountInCogs, currentEscrowBalance[p]) > allowance
       THEN Goto(p, "approve")
       ELSE Goto(p, "deposit")
  /\ UNCHANGED <<paymentChannels, ledgerVars, inputVars, mpeBalance,
                 currentEscrowBalance, branch, sel, txs, result, err>>

\* account.approveTransfer: the approval is mined
approveTransfer(p) ==
  /\ pc[p] = "approve"
  /\ LedgerApprove(depositAmount(amountInCogs, currentEscrowBalance[p]))
  /\ Submit(p, PendingTx(p, TRUE))
  /\ Goto(p, "deposit")
  /\ UNCHANGED <<paymentChannels, inputVars, mpeBalance, currentEscrowBalance,
                 branch, sel, result, err>>

\* MPEContract.deposit, lines 54-59: the deposit is mined; the caller
\* (lines 133 / 167) goes on to its own transaction
deposit(p) ==
  /\ pc[p] = "deposit"
  /\ LedgerDepositAccepts(depositAmount(amountInCogs, currentEscrowBalance[p]))
  /\ LedgerDeposit(depositAmount(amountInCogs, currentEscrowBalance[p]))
  /\ Submit(p, PendingTx(p, TRUE))
  /\ Goto(p, IF branch[p] = "addFunds" THEN "channelAddFunds"
                                       ELSE "channelExtendAndAddFunds")
  /\ UNCHANGED <<paymentChannels, inputVars, mpeBalance, currentEscrowBalance,
                 branch, sel, result, err>>

\* (variant: lines 135-137 passing the first channel's id)
channelAddFunds_first(p) ==
  /\ pc[p] = "channelAddFunds"
  /\ LedgerChannelAddFundsAccepts(amountInCogs)
  /\ LedgerChannelAddFunds(1, amountInCogs)
  /\ Submit(p, PendingTx(p, TRUE))
  /\ Goto(p, "refresh")
  /\ UNCHANGED <<paymentChannels, inputVars, mpeBalance, currentEscrowBalance,
                 branch, sel, result, err>>

\* MPEContract.channelAddFunds, lines 135-137
channelAddFunds(p) ==
  /\ pc[p] = "channelAddFunds"
  /\ LedgerChannelAddFundsAccepts(amountInCogs)
  /\ LedgerChannelAddFunds(sel[p], amountInCogs)
  /\ Submit(p, PendingTx(p, TRUE))
  /\ Goto(p, "refresh")
  /\ UNCHANGED <<paymentChannels, inputVars, mpeBalance, currentEscrowBalance,
                 branch, sel, result, err>>

\* MPEContract.channelExtend, lines 147-153
channelExtend(p) ==
  /\ pc[p] = "channelExtend"
  /\ LedgerChannelExtendAccepts(sel[p], defaultExpiration)
  /\ LedgerChannelExtend(sel[p], defaultExpiration)
  /\ Submit(p, PendingTx(p, TRUE))
  /\ Goto(p, "refresh")
  /\ UNCHANGED <<paymentChannels, inputVars, mpeBalance, currentEscrowBalance,
                 branch, sel, result, err>>

\* MPEContract.channelExtendAndAddFunds, lines 169-171
channelExtendAndAddFunds(p) ==
  /\ pc[p] = "channelExtendAndAddFunds"
  /\ LedgerChannelAddFundsAccepts(amountInCogs)
  /\ LedgerChannelExtendAccepts(sel[p], defaultExpiration)
  /\ LedgerChannelExtendAndAddFunds(sel[p], defaultExpiration, amountInCogs)
  /\ Submit(p, PendingTx(p, TRUE))
  /\ Goto(p, "refresh")
  /\ UNCHANGED <<paymentChannels, inputVars, mpeBalance, currentEscrowBalance,
                 branch, sel, result, err>>

\* PaymentChannel.refresh after a mutation; selectChannel then returns the
\* channel (lines 27, 33, 38)
refresh(p) ==
  /\ pc[p] = "refresh"
  /\ paymentChannels' =
       [ i \in 1..Len(paymentChannels) |->
           IF paymentChannels[i].channelId = sel[p]
             THEN [paymentChannels[i] EXCEPT !.value = chain[sel[p]].value,
                                             !.expiration = chain[sel[p]].expiration]
             ELSE paymentChannels[i] ]
  /\ Return(p, sel[p])
  /\ UNCHANGED <<ledgerVars, inputVars, mpeBalance, currentEscrowBalance,
                 branch, sel, txs, err>>

\* (variant: the rejection is caught and the funding transaction goes ahead)
depositFails_swallowed(p) ==
  /\ pc[p] = "deposit"
  /\ Submit(p, PendingTx(p, FALSE))
  /\ err' = [err EXCEPT ![p] =
       IF base < depositAmount(amountInCogs, currentEscrowBalance[p])
         THEN "InsufficientFunds" ELSE "LedgerCallFailed"]
  /\ Goto(p, IF branch[p] = "addFunds" THEN "channelAddFunds"
                                       ELSE "channelExtendAndAddFunds")
  /\ UNCHANGED <<paymentChannels, ledgerVars, inputVars, mpeBalance,
                 currentEscrowBalance, branch, sel, result>>

\* The deposit of line 230 fails (the base balance does not cover it, or the
\* ledger call fails): the await rejects, _fundEscrowAccount rejects, and so
\* does channelAddFunds / channelExtendAndAddFunds at line 133 / 167.
depositFails(p) ==
  /\ pc[p] = "deposit"
  /\ Submit(p, PendingTx(p, FALSE))
  /\ Throw(p, IF base < depositAmount(amountInCogs, currentEscrowBalance[p])
                THEN "InsufficientFunds" ELSE "LedgerCallFailed")
  /\ UNCHANGED <<paymentChannels, ledgerVars, inputVars, mpeBalance,
                 currentEscrowBalance, branch, sel, result>>

\* (variant: the rejection is caught and the selected channel returned)
sendTransactionFails_swallowed(p) ==
  /\ pc[p] \in {"openChannel", "approve", "channelAddFunds", "channelExtend",
                "channelExtendAndAddFunds"}
  /\ Submit(p, PendingTx(p, FALSE))
  /\ Return(p, sel[p])
  /\ UNCHANGED <<paymentChannels, ledgerVars, inputVars, mpeBalance,
                 currentEscrowBalance, branch, sel, err>>

\* Any other submitted transaction fails (it reverts, or the network drops
\* it): account.sendTransaction rejects and the rejection propagates through
\* every await up to selectChannel's caller.
sendTransactionFails(p) ==
  /\ pc[p] \in {"openChannel", "approve", "channelAddFunds", "channelExtend",
                "channelExtendAndAddFunds"}
  /\ Submit(p, PendingTx(p, FALSE))
  /\ Throw(p, "LedgerCallFailed")
  /\ UNCHANGED <<paymentChannels, ledgerVars, inputVars, mpeBalance,
                 currentEscrowBalance, branch, sel, result>>

\* ---------------------------------------------------------------- Next
Step(p) ==
  \/ escrowBalance(p)
  \/ openChannelBranch(p)
  \/ depositAndOpenChannelBranch(p)
  \/ reuseBranch(p)
  \/ extendBranch(p)
  \/ addFundsBranch(p)
  \/ extendAndAddFundsBranch(p)
  \/ openChannel(p)
  \/ newlyOpenedChannel(p)
  \/ fundEscrowAccount(p)
  \/ depositToEscrowAccount(p)
  \/ approveTransfer(p)
  \/ deposit(p)
  \/ channelAddFunds(p)
  \/ channelExtend(p)
  \/ channelExtendAndAddFunds(p)
  \/ refresh(p)
  \/ depositFails(p)
  \/ sendTransactionFails(p)

\* Invocations as the code admits them: any number in flight at once.
Next == \E p \in Procs : selectChannel(p) \/ Step(p)

Spec == Init /\ [][Next]_vars

\* Invocations as a caller that awaits each selection issues them.
NextSeq == \E p \in Procs : selectChannelSerial(p) \/ Step(p)

SpecSeq == Init /\ [][NextSeq]_vars

\* ------------------------------ MPEContract.depositAndOpenChannel, called
\* directly (lines 105-121).  selectChannel never reaches it (line 16 throws),
\* so its caller here is any client of MPEContract, with amountInCogs = the
\* call price and expiry = the required expiration.
LedgerDepositAndOpenChannelAccepts(amount) == base >= amount /\ allowance >= amount
LedgerDepositAndOpenChannel(amount, expiry) ==
  /\ chain' = Append(chain, [value |-> amount, expiration |-> expiry])
  /\ base' = base - amount
  /\ allowance' = allowance - amount
  /\ UNCHANGED escrow

\* lines 105-111: the call, up to its first await
depositAndOpenChannel(p) ==
  /\ pc[p] = "idle"
  /\ branch' = [branch EXCEPT ![p] = "depositAndOpen"]
  /\ Goto(p, "l112")
  /\ UNCHANGED <<paymentChannels, ledgerVars, inputVars, mpeBalance,
                 currentEscrowBalance, sel, txs, result, err>>

\* (variant: line 113 approving whatever the allowance)
allowanceRead_always(p) ==
  /\ pc[p] = "l112"
  /\ Goto(p, "l114")
  /\ UNCHANGED <<paymentChannels, ledgerVars, inputVars, mpeBalance,
                 currentEscrowBalance, branch, sel, txs, result, err>>

\* lines 112-113: alreadyApprovedAmount = await account.allowance(), compared
\* with the amount
allowanceRead(p) ==
  /\ pc[p] = "l112"
  /\ Goto(p, IF amountInCogs > allowance THEN "l114" ELSE "l120")
  /\ UNCHANGED <<paymentChannels, ledgerVars, inputVars, mpeBalance,
                 currentEscrowBalance, branch, sel, txs, result, err>>

\* line 114: await account.approveTransfer(amountInCogs), mined
approveTransferAmount(p) ==
  /\ pc[p] = "l114"
  /\ LedgerApprove(amountInCogs)
  /\ Submit(p, Tx("approve", 0, amountInCogs, 0, TRUE))
  /\ Goto(p, "l120")
  /\ UNCHANGED <<paymentChannels, inputVars, mpeBalance, currentEscrowBalance,
                 branch, sel, result, err>>

\* line 114: the approval fails; the await rejects and so does the call
approveTransferFails(p) ==
  /\ pc[p] = "l114"
  /\ Submit(p, Tx("approve", 0, amountInCogs, 0, FALSE))
  /\ Throw(p, "LedgerCallFailed")
  /\ UNCHANGED <<paymentChannels, ledgerVars, inputVars, mpeBalance,
                 currentEscrowBalance, branch, sel, result>>

\* lines 117-120: the depositAndOpenChannel transaction, mined
sendDepositAndOpenChannel(p) ==
  /\ pc[p] = "l120"
  /\ LedgerDepositAndOpenChannelAccepts(amountInCogs)
  /\ LedgerDepositAndOpenChannel(amountInCogs, defaultExpiration)
  /\ Submit(p, Tx("depositAndOpenChannel", 0, amountInCogs, defaultExpiration, TRUE))
  /\ sel' = [sel EXCEPT ![p] = Len(chain) + 1]
  /\ Return(p, Len(chain) + 1)
  /\ UNCHANGED <<paymentChannels, inputVars, mpeBalance, currentEscrowBalance,
                 branch, err>>

\* line 120: the transaction fails (the ledger rejects it, or it is dropped)
sendDepositAndOpenChannelFails(p) ==
  /\ pc[p] = "l120"
  /\ Submit(p, Tx("depositAndOpenChannel", 0, amountInCogs, defaultExpiration, FALSE))
  /\ Throw(p, "LedgerCallFailed")
  /\ UNCHANGED <<paymentChannels, ledgerVars, inputVars, mpeBalance,
                 currentEscrowBalance, branch, sel, result>>

\* Direct calls of depositAndOpenChannel, any number in flight at once.
NextDirect ==
  \E p \in Procs :
    \/ depositAndOpenChannel(p)
    \/ allowanceRead(p)
    \/ approveTransferAmount(p)
    \/ approveTransferFails(p)
    \/ sendDepositAndOpenChannel(p)
    \/ sendDepositAndOpenChannelFails(p)

SpecDirect == Init /\ [][NextDirect]_vars

\* ================================================================ claims
Finished(p) == pc[p] \in {"done", "error"}

\* amountSpent the caller tracks for a channel: that of the local object, 0
\* for a channel opened by this selection
SpentOf(id) ==
  IF \E i \in 1..Len(paymentChannels) : paymentChannels[i].channelId = id
    THEN Local(id).amountSpent
    ELSE 0

\* The predicates of the request, read off the ledger's record of a channel
FundedOnLedger(id) == chain[id].value - SpentOf(id) >= serviceCallPrice
ValidOnLedger(id) == chain[id].expiration >= defaultExpiration

\* The predicates of the request on the local list, by index
FundedAt(i) == paymentChannels[i].value - paymentChannels[i].amountSpent >= serviceCallPrice
ValidAt(i) == paymentChannels[i].expiration >= defaultExpiration
Indices == 1..Len(paymentChannels)

\* The invocation p takes its decision in this step (lines 11-38)
Decides(p) == pc[p] = "l9" /\ pc'[p] # "l9"

TxOps(p) == { txs[p][i].op : i \in 1..Len(txs[p]) }
CountOps(p, ops) == Cardinality({ i \in 1..Len(txs[p]) : txs[p][i].op \in ops })

\* C1: whenever selectChannel returns a channel, that channel has sufficient
\* funds for the price and is valid for the required expiration in the
\* ledger's state; with an empty list the channel returned is a new one.
C1_ReturnedChannelUsable ==
  \A p \in Procs :
    pc[p] = "done" =>
      /\ result[p] \in 1..Len(chain)
      /\ FundedOnLedger(result[p])
      /\ ValidOnLedger(result[p])
      /\ Len(paymentChannels) = 0 =>
           /\ chain[result[p]] = [value |-> serviceCallPrice,
                                  expiration |-> defaultExpiration]
           /\ txs[p] = << Tx("openChannel", 0, serviceCallPrice, defaultExpiration, TRUE) >>

\* C1 witness: an invocation has returned a channel it had to extend and fund
C1_Witness ==
  \E p \in Procs : pc[p] = "done" /\ branch[p] = "extendAndAddFunds"

\* C1, empty list: an invocation has returned the channel it opened
C1_WitnessOpened ==
  \E p \in Procs : pc[p] = "done" /\ branch[p] = "open"

\* The decision step of C2: with a funded and valid channel in the list the
\* step returns, its result the first such channel, nothing submitted,
\* nothing changed.
C2_ReuseStep ==
  \A p \in Procs :
    (Decides(p) /\ \E i \in Indices : FundedAt(i) /\ ValidAt(i)) =>
      /\ pc'[p] = "done"
      /\ \E i \in Indices :
           /\ FundedAt(i) /\ ValidAt(i)
           /\ \A j \in 1..(i - 1) : ~(FundedAt(j) /\ ValidAt(j))
           /\ result'[p] = paymentChannels[i].channelId
      /\ txs'[p] = <<>>
      /\ UNCHANGED <<chain, escrow, base, allowance, paymentChannels>>

\* C2: when some channel is funded and valid, selectChannel returns the first
\* such channel in list order without submitting any transaction, and leaves
\* the ledger's channels (value, expiration), the escrow balance and the
\* local channel objects as they were.
C2_ReuseFirstFundedValid == [][C2_ReuseStep]_vars

\* C2 witness: a reuse with two funded and valid channels to choose from
C2_Witness ==
  \E p \in Procs :
    /\ pc[p] = "done" /\ branch[p] = "reuse" /\ txs[p] = <<>>
    /\ Cardinality({ i \in Indices : FundedAt(i) /\ ValidAt(i) }) = 2
    /\ \A q \in Procs \ {p} : pc[q] = "idle"

\* C3 as stated, of an invocation that has returned: it has submitted at
\* most one state-changing transaction of any kind (deposit and approve
\* counted), and in case 5 exactly the combined one.
C3_AtMostOneTransaction ==
  \A p \in Procs :
    pc[p] = "done" =>
      /\ Len(txs[p]) <= 1
      /\ branch[p] = "extendAndAddFunds" =>
           txs[p] = << Tx("channelExtendAndAddFunds", sel[p], serviceCallPrice,
                          defaultExpiration, TRUE) >>

\* The channel-level transaction each branch may submit
OpOfBranch(b) ==
  CASE b = "open" -> {"openChannel"}
    [] b = "extend" -> {"channelExtend"}
    [] b = "addFunds" -> {"channelAddFunds"}
    [] b = "extendAndAddFunds" -> {"channelExtendAndAddFunds"}
    [] OTHER -> {}

\* C3 amended: an invocation submits at most one channel-level transaction,
\* the one of its branch and the last it submits; only cases 4 and 5 may
\* submit anything before it, namely one deposit of the escrow shortfall,
\* itself preceded by at most one approval, and only when the escrow balance
\* they read is below the price; an invocation that returns from case 5 has
\* submitted exactly one channelExtendAndAddFunds.
C3_OneChannelTransaction ==
  \A p \in Procs :
    /\ CountOps(p, ChannelOps) <= 1
    /\ CountOps(p, {"deposit"}) <= 1
    /\ CountOps(p, {"approve"}) <= 1
    /\ TxOps(p) \subseteq OpOfBranch(branch[p]) \cup
         (IF branch[p] \in {"addFunds", "extendAndAddFunds"}
               /\ currentEscrowBalance[p] < serviceCallPrice
            THEN {"approve", "deposit"} ELSE {})
    /\ \A i \in 1..Len(txs[p]) :
         /\ txs[p][i].op \in ChannelOps => i = Len(txs[p])
         /\ txs[p][i].op = "deposit" =>
              \A j \in 1..Len(txs[p]) : txs[p][j].op = "approve" => j < i
    /\ (pc[p] = "done" /\ branch[p] = "extendAndAddFunds") =>
         /\ CountOps(p, {"channelExtendAndAddFunds"}) = 1
         /\ txs[p][Len(txs[p])] =
              Tx("channelExtendAndAddFunds", sel[p], serviceCallPrice,
                 defaultExpiration, TRUE)

\* C3 witness: case 4 with approval, deposit and channelAddFunds
C3_Witness ==
  \E p \in Procs :
    /\ pc[p] = "done" /\ branch[p] = "addFunds"
    /\ Len(txs[p]) = 3
    /\ txs[p][1].op = "approve" /\ txs[p][2].op = "deposit"
    /\ txs[p][3].op = "channelAddFunds"

\* C4: with an empty list and an escrow balance of at least the price (the
\* price exactly included), a finished invocation has submitted exactly one
\* transaction, openChannel with amount = price and expiration = the required
\* expiration, and if it was mined the invocation returns the one new channel.
C4_OpenWhenBalanceCovers ==
  \A p \in Procs :
    (Finished(p) /\ Len(paymentChannels) = 0 /\ mpeBalance[p] >= serviceCallPrice) =>
      /\ Len(txs[p]) = 1
      /\ txs[p][1].op = "openChannel"
      /\ txs[p][1].amount = serviceCallPrice
      /\ txs[p][1].expiry = defaultExpiration
      /\ txs[p][1].ok =>
           /\ pc[p] = "done"
           /\ result[p] \in 1..Len(chain)
           /\ chain[result[p]] = [value |-> serviceCallPrice,
                                  expiration |-> defaultExpiration]

\* C5: with an empty list and an escrow balance below the price, a finished
\* invocation has submitted exactly one transaction, depositAndOpenChannel
\* with amount = price and expiration = the required expiration, and if it
\* was mined the invocation returns the one new channel.
C5_DepositAndOpenWhenShort ==
  \A p \in Procs :
    (Finished(p) /\ Len(paymentChannels) = 0 /\ mpeBalance[p] < serviceCallPrice) =>
      /\ Len(txs[p]) = 1
      /\ txs[p][1].op = "depositAndOpenChannel"
      /\ txs[p][1].amount = serviceCallPrice
      /\ txs[p][1].expiry = defaultExpiration
      /\ txs[p][1].ok =>
           /\ pc[p] = "done"
           /\ result[p] \in 1..Len(chain)
           /\ chain[result[p]].expiration = defaultExpiration

\* C6: no two invocations for the key are in flight together: none has read
\* the escrow balance (line 8) while another, which has read it too, is
\* still short of completion.
C6_OneSelectionInFlight ==
  \A p, q \in Procs :
    (p # q) => ~(InFlight(p) /\ pc[p] # "l8" /\ InFlight(q) /\ pc[q] # "l8")

\* C7: the funding precheck submits no deposit when the escrow balance it
\* read covers the amount, and otherwise at most one deposit, of exactly
\* amount - balance read: never more than max(0, amount - balance read).
PrecheckDone(p) ==
  pc[p] \in {"depositToEscrowAccount", "approve", "deposit", "channelAddFunds",
             "channelExtendAndAddFunds", "refresh", "done", "error"}
  /\ branch[p] \in {"addFunds", "extendAndAddFunds"}

C7_DepositIsShortfall ==
  \A p \in Procs :
    /\ CountOps(p, {"deposit"}) <= 1
    /\ \A i \in 1..Len(txs[p]) :
         txs[p][i].op = "deposit" =>
           /\ txs[p][i].amount = serviceCallPrice - currentEscrowBalance[p]
           /\ txs[p][i].amount > 0
    /\ (PrecheckDone(p) /\ currentEscrowBalance[p] >= serviceCallPrice) =>
         "deposit" \notin TxOps(p)
    /\ (pc[p] \in {"channelAddFunds", "channelExtendAndAddFunds"}
          /\ currentEscrowBalance[p] < serviceCallPrice) =>
         CountOps(p, {"deposit"}) = 1

\* C7 witness: a deposit of 1 mined after reading an escrow balance of 1
C7_Witness ==
  \E p \in Procs :
    /\ pc[p] = "channelAddFunds"
    /\ currentEscrowBalance[p] = 1
    /\ \E i \in 1..Len(txs[p]) :
         txs[p][i] = Tx("deposit", 0, 1, 0, TRUE)

\* C8: when channelAddFunds or channelExtendAndAddFunds is about to submit
\* its funding transaction for an amount, the escrow balance on the ledger
\* is at least that amount (invocations not interleaved).
C8_EscrowCoversFunding ==
  \A p \in Procs :
    pc[p] \in {"channelAddFunds", "channelExtendAndAddFunds"} =>
      escrow >= serviceCallPrice

\* C8 witness: case 5 about to submit, its deposit mined
C8_Witness ==
  \E p \in Procs :
    /\ pc[p] = "channelExtendAndAddFunds"
    /\ "deposit" \in TxOps(p)
    /\ escrow = serviceCallPrice

\* The state part of C9: after a failed deposit the invocation is in error
\* and the failed deposit is the last transaction it submitted.
C9_NoFundingAfterFailedDeposit ==
  \A p \in Procs :
    (\E i \in 1..Len(txs[p]) : txs[p][i].op = "deposit" /\ ~txs[p][i].ok) =>
      /\ pc[p] = "error"
      /\ err[p] \in {"InsufficientFunds", "LedgerCallFailed"}
      /\ TxOps(p) \cap ChannelOps = {}
      /\ txs[p][Len(txs[p])].op = "deposit"

\* The step part of C9: the failing deposit changes no channel, and a base
\* balance below the shortfall is reported as InsufficientFunds.
C9_FailedDepositStep ==
  \A p \in Procs :
    (pc[p] = "deposit" /\ pc'[p] # "deposit" /\ txs'[p][Len(txs'[p])].ok = FALSE) =>
      /\ UNCHANGED <<chain, escrow, paymentChannels>>
      /\ base < serviceCallPrice - currentEscrowBalance[p] => err'[p] = "InsufficientFunds"

\* C9: when the deposit of the shortfall fails because the base balance does
\* not cover it, the invocation ends in that error, having submitted no
\* channelAddFunds or channelExtendAndAddFunds, and every channel's value
\* and expiration are as they were.
C9_FailFast == [](C9_NoFundingAfterFailedDeposit) /\ [][C9_FailedDepositStep]_vars

\* C9 witness: a deposit of 2 refused for lack of base balance
C9_Witness ==
  \E p \in Procs :
    /\ pc[p] = "error" /\ err[p] = "InsufficientFunds"
    /\ txs[p][Len(txs[p])] = Tx("deposit", 0, 2, 0, FALSE)

\* The decision step of C10: the first funded channel is the one picked.
C10_ExtendStep ==
  \A p \in Procs :
    (/\ Decides(p)
     /\ ~\E i \in Indices : FundedAt(i) /\ ValidAt(i)
     /\ \E i \in Indices : FundedAt(i)) =>
      /\ branch'[p] = "extend"
      /\ \E i \in Indices :
           /\ FundedAt(i)
           /\ \A j \in 1..(i - 1) : ~FundedAt(j)
           /\ sel'[p] = paymentChannels[i].channelId
      /\ txs'[p] = <<>>

\* The state part of C10: the extend branch submits channelExtend only, once,
\* and returns the channel extended to the required expiration.
C10_Extended ==
  \A p \in Procs :
    branch[p] = "extend" =>
      /\ Len(txs[p]) <= 1
      /\ TxOps(p) \subseteq {"channelExtend"}
      /\ chain[sel[p]].value = Local(sel[p]).value
      /\ pc[p] = "done" =>
           /\ txs[p] = << Tx("channelExtend", sel[p], 0, defaultExpiration, TRUE) >>
           /\ result[p] = sel[p]
           /\ chain[sel[p]].expiration = defaultExpiration

\* C10: when no channel is funded and valid but some channel is funded,
\* selectChannel picks the first funded channel in list order, whatever the
\* validity of the others, submits a single channelExtend to the required
\* expiration and nothing else, so the channel's value stays as it was, and
\* returns that channel.
C10_ExtendFirstFunded == [](C10_Extended) /\ [][C10_ExtendStep]_vars

\* C10 witness: the second channel extended past a valid, underfunded first
C10_Witness ==
  \E p \in Procs :
    /\ pc[p] = "done" /\ branch[p] = "extend" /\ result[p] = 2
    /\ Len(paymentChannels) = 2
    /\ ValidAt(1) /\ ~FundedAt(1)
    /\ txs[p] = << Tx("channelExtend", 2, 0, defaultExpiration, TRUE) >>

\* C11: when no channel is funded for the price and some channel is valid,
\* the invocation picks the first valid channel of the list and the one
\* channelAddFunds it submits adds exactly the price shortfall,
\* price - (value - amountSpent), and leaves the channel's expiration as it was.
C11_AddsShortfall ==
  \A p \in Procs :
    (pc[p] = "refresh" /\ branch[p] = "addFunds") =>
      LET c == Local(sel[p])
          t == txs[p][Len(txs[p])]
      IN /\ sel[p] = paymentChannels[firstValidChannel(paymentChannels,
                                       defaultExpiration)].channelId
         /\ t.op = "channelAddFunds" /\ t.ch = sel[p]
         /\ t.amount = serviceCallPrice - (c.value - c.amountSpent)
         /\ chain[sel[p]].expiration = c.expiration

\* C12: when the list is non-empty and no channel is funded for the price
\* and none is valid, the invocation picks the channel at index 0 and submits
\* a single channelExtendAndAddFunds for it, with the price and the required
\* expiration; once mined the channel has expiration = the required
\* expiration and value = its former value + the price (10 + 5 = 15 in the
\* example), so value - amountSpent >= price, and the returned object shows it.
C12_ExtendAndFundFirst ==
  \A p \in Procs :
    /\ (pc[p] = "refresh" /\ branch[p] = "extendAndAddFunds") =>
         LET c == Local(sel[p])
             t == txs[p][Len(txs[p])]
         IN /\ sel[p] = paymentChannels[1].channelId
            /\ CountOps(p, ChannelOps) = 1
            /\ t = Tx("channelExtendAndAddFunds", sel[p], serviceCallPrice,
                      defaultExpiration, TRUE)
            /\ chain[sel[p]].expiration = defaultExpiration
            /\ chain[sel[p]].value = c.value + serviceCallPrice
            /\ chain[sel[p]].value - c.amountSpent >= serviceCallPrice
    /\ (pc[p] = "done" /\ branch[p] = "extendAndAddFunds") =>
         /\ result[p] = paymentChannels[1].channelId
         /\ paymentChannels[1].expiration = chain[result[p]].expiration
         /\ paymentChannels[1].value = chain[result[p]].value
         /\ ValidAt(1) /\ FundedAt(1)

\* Case 5 has submitted its transaction for a list of two channels whose
\* first one held part of the price already.
C12_Witness ==
  \E p \in Procs :
    /\ pc[p] = "refresh" /\ branch[p] = "extendAndAddFunds"
    /\ Len(paymentChannels) = 2
    /\ Local(sel[p]).value - Local(sel[p]).amountSpent > 0

\* C13: if the channel transaction an invocation submitted (openChannel,
\* channelExtend, channelAddFunds or channelExtendAndAddFunds) fails, the
\* invocation ends with that failure, returns no channel, and the failed
\* transaction is the last it submits: no retry, no other branch or channel.
C13_FailureSurfaces ==
  \A p \in Procs :
    \A i \in 1..Len(txs[p]) :
      (txs[p][i].op \in ChannelOps /\ ~txs[p][i].ok) =>
        /\ i = Len(txs[p])
        /\ CountOps(p, ChannelOps) = 1
        /\ pc[p] = "error"
        /\ err[p] = "LedgerCallFailed"
        /\ result[p] = 0

\* An extension of the first funded channel was submitted and failed.
C13_Witness ==
  \E p \in Procs :
    /\ pc[p] = "error" /\ branch[p] = "extend"
    /\ Len(txs[p]) = 1
    /\ txs[p][1].op = "channelExtend" /\ ~txs[p][1].ok

\* The transactions of an invocation as selectChannel and _fundEscrowAccount
\* determine them: the approval, which hangs on the allowance, left out
IsPlanned(t) == t.op # "approve"
Plan(p) == SelectSeq(txs[p], IsPlanned)
SameCall(s, t) ==
  /\ s.op = t.op /\ s.ch = t.ch /\ s.amount = t.amount /\ s.expiry = t.expiry

\* No invocation has refreshed a channel object yet: the list is the one
\* every invocation so far has read.
ListAsGiven ==
  \A r \in Procs :
    ~(pc[r] = "done" /\ branch[r] \in {"extend", "addFunds", "extendAndAddFunds"})

\* Two invocations that have decided on the same inputs: the same list, price
\* and required expiration, and the same escrow balance at each read
SameInputs(p, q) ==
  /\ branch[p] # "none" /\ branch[q] # "none"
  /\ ListAsGiven
  /\ mpeBalance[p] = mpeBalance[q]
  /\ currentEscrowBalance[p] = currentEscrowBalance[q]

C14_WitnessDeposit ==
  \E p, q \in Procs :
    /\ p # q /\ SameInputs(p, q)
    /\ branch[p] = "addFunds"
    /\ Len(Plan(p)) = 2 /\ Len(Plan(q)) >= 1

\* The transactions that fund or extend an existing channel
MutatingOps == {"channelAddFunds", "channelExtend", "channelExtendAndAddFunds"}

\* Two invocations have each had an openChannel mined.
BothOpened(p, q) ==
  \E i \in 1..Len(txs[p]), j \in 1..Len(txs[q]) :
    /\ txs[p][i].op = "openChannel" /\ txs[p][i].ok
    /\ txs[q][j].op = "openChannel" /\ txs[q][j].ok

\* Two invocations have each submitted a fund/extend transaction for the
\* same channel.
BothMutatedSame(p, q) ==
  \E i \in 1..Len(txs[p]), j \in 1..Len(txs[q]) :
    /\ txs[p][i].op \in MutatingOps
    /\ txs[q][j].op \in MutatingOps
    /\ txs[p][i].ch = txs[q][j].ch

\* C15: two invocations whose ledger calls interleave open at most one new
\* channel between them when started on the same empty list, and never both
\* submit a fund/extend transaction for the same channel when started on the
\* same non-empty list.
C15_NoDuplicateMutation ==
  \A p, q \in Procs :
    (p # q) => ~BothOpened(p, q) /\ ~BothMutatedSame(p, q)

\* C15, its second half alone
C15_NoSharedChannelMutation ==
  \A p, q \in Procs :
    (p # q) => ~BothMutatedSame(p, q)

\* The invocation taking this step
Acts(p) == pc'[p] # pc[p]

\* With a non-empty list an invocation opens no channel, and every fund or
\* extend transaction it submits is for the channel it selected and returns.
C16_NoOpenOneChannel ==
  \A p \in Procs :
    (Len(paymentChannels) # 0) =>
      /\ branch[p] \notin {"open", "depositAndOpen"}
      /\ TxOps(p) \cap {"openChannel", "depositAndOpenChannel"} = {}
      /\ Len(chain) = Len(paymentChannels)
      /\ \A i \in 1..Len(txs[p]) :
           txs[p][i].op \in MutatingOps => txs[p][i].ch = sel[p]
      /\ pc[p] = "done" => result[p] = sel[p]

\* With a non-empty list no step of an invocation changes the list's length
\* or order, nor the value or expiration, on the ledger or in the list, of a
\* channel other than the one the invocation selected.
C16_FrameStep ==
  (Len(paymentChannels) # 0) =>
    /\ Len(paymentChannels') = Len(paymentChannels)
    /\ Len(chain') = Len(chain)
    /\ \A i \in Indices :
         /\ paymentChannels'[i].channelId = paymentChannels[i].channelId
         /\ paymentChannels'[i].amountSpent = paymentChannels[i].amountSpent
         /\ \A p \in Procs :
              (Acts(p) /\ paymentChannels[i].channelId # sel'[p]) =>
                /\ paymentChannels'[i] = paymentChannels[i]
                /\ chain'[paymentChannels[i].channelId] =
                     chain[paymentChannels[i].channelId]

\* C16: with a non-empty list selectChannel never opens a channel, mutates
\* at most one channel, the one it returns, and leaves the value and
\* expiration of every other channel, and the list's length and order, as
\* they were.
C16_Frame == [](C16_NoOpenOneChannel) /\ [][C16_FrameStep]_vars

\* An invocation has topped up and returned the second channel of a list of
\* two.
C16_Witness ==
  \E p \in Procs :
    /\ pc[p] = "done" /\ branch[p] = "addFunds"
    /\ Len(paymentChannels) = 2 /\ result[p] = paymentChannels[2].channelId
    /\ \E i \in 1..Len(txs[p]) : txs[p][i].op = "channelAddFunds" /\ txs[p][i].ok

\* The branches that request an extension (lines 26 and 37)
ExtendingBranches == {"extend", "extendAndAddFunds"}

\* An invocation that extends has, once its call is over, submitted the
\* extension: the call was not skipped as needing no extension.
C17_ExtensionSubmitted ==
  \A p \in Procs :
    (branch[p] \in ExtendingBranches /\ pc[p] \in {"refresh", "done"}) =>
      \E i \in 1..Len(txs[p]) :
        /\ txs[p][i].op \in OpOfBranch(branch[p]) /\ txs[p][i].ok
        /\ txs[p][i].ch = sel[p]
        /\ txs[p][i].expiry = defaultExpiration

\* When an invocation calls extendExpiration or extendAndAddFunds, the
\* expiration of the channel it calls it on is below the required one; and
\* no step lowers the expiration of a channel, on the ledger or in the list.
C17_StrictStep ==
  /\ \A p \in Procs :
       (Decides(p) /\ branch'[p] \in ExtendingBranches) =>
         /\ Local(sel'[p]).expiration < defaultExpiration
         /\ extensionNeeded(Local(sel'[p]), defaultExpiration)
         /\ pc'[p] # "refresh"
  /\ \A i \in Indices :
       /\ paymentChannels'[i].expiration >= paymentChannels[i].expiration
       /\ chain'[i].expiration >= chain[i].expiration

\* C17: every extension selectChannel requests is a strict increase: the
\* channel it calls extendExpiration or extendAndAddFunds on has an
\* expiration strictly below the required one, so the call is never the
\* NoExtensionNeeded no-op, and no channel's expiration is ever lowered.
C17_StrictExtension == [](C17_ExtensionSubmitted) /\ [][C17_StrictStep]_vars

\* An extension by two blocks has been mined and not yet read back.
C17_Witness ==
  \E p \in Procs :
    /\ pc[p] = "refresh" /\ branch[p] \in ExtendingBranches
    /\ Local(sel[p]).expiration = 0
    /\ chain[sel[p]].expiration = 2

\* What an invocation of depositAndOpenChannel has submitted: at most one
\* approval, of the amount, then at most one depositAndOpenChannel, of the
\* amount and expiry, and nothing once the approval has failed.
C18_Submitted ==
  \A p \in Procs :
    \A i \in 1..Len(txs[p]) :
      /\ txs[p][i].op = "depositAndOpenChannel" =>
           /\ i = Len(txs[p])
           /\ txs[p][i].amount = amountInCogs
           /\ txs[p][i].expiry = defaultExpiration
           /\ \A j \in 1..(i - 1) : txs[p][j].op = "approve" /\ txs[p][j].ok
      /\ txs[p][i].op = "approve" =>
           /\ i = 1
           /\ txs[p][i].amount = amountInCogs
           /\ ~txs[p][i].ok => Len(txs[p]) = 1 /\ pc[p] = "error" /\ result[p] = 0

\* After reading the allowance the invocation goes to approveTransfer exactly
\* when the amount exceeds it, and straight to the transaction otherwise; and
\* whenever it comes to submit the transaction the allowance is at least the
\* amount.
C18_ApproveStep ==
  \A p \in Procs :
    /\ (pc[p] = "l112" /\ Acts(p)) =>
         /\ pc'[p] = "l114" <=> amountInCogs > allowance
         /\ pc'[p] = "l120" <=> amountInCogs <= allowance
    /\ (pc[p] # "l120" /\ pc'[p] = "l120") => allowance' >= amountInCogs

\* C18: depositAndOpenChannel submits its depositAndOpenChannel transaction
\* only after the token allowance is at least the amount: it calls
\* approveTransfer(amount) first exactly when the amount exceeds the current
\* allowance, issues no approval when the allowance covers the amount, and
\* submits no ledger transaction if the approval fails.
C18_ApproveBeforeOpen == [](C18_Submitted) /\ [][C18_ApproveStep]_vars

\* A call has approved the amount and then had its transaction mined.
C18_Witness ==
  \E p \in Procs :
    /\ pc[p] = "done"
    /\ txs[p] = << Tx("approve", 0, amountInCogs, 0, TRUE),
                   Tx("depositAndOpenChannel", 0, amountInCogs, defaultExpiration, TRUE) >>

\* A call had its transaction mined without an approval.
C18_WitnessCovered ==
  \E p \in Procs :
    /\ pc[p] = "done"
    /\ txs[p] = << Tx("depositAndOpenChannel", 0, amountInCogs, defaultExpiration, TRUE) >>

====
